---- MODULE Spec2Model ----
(***************************************************************************)
(* Job queue / worker / broadcast hub of asccclass/mcpzimage.               *)
(*                                                                         *)
(* The repository holds two versions of the server: src/server.go, whose   *)
(* worker claims a task with a plain read followed by a save, and          *)
(* src/unnamed/part_001, whose worker claims inside db.Transaction.  The   *)
(* variable impl says which worker loop runs; everything else (hub,        *)
(* sessions, notifyUpdate, runPythonZImage) is the same code in both.      *)
(*                                                                         *)
(* Store operations succeed in every specification but SpecFaulty, where   *)
(* the worker's store operations may return an error; updated_at is not    *)
(* modelled (no claim reads it).                                           *)
(***************************************************************************)
EXTENDS Integers, Sequences, FiniteSets, TLC

\* ---------------------------------------------------------------- bounds
MaxTasks == 2        \* create_task requests accepted in a run
MaxConns == 2        \* websocket connections in a run
MaxTime == 1         \* the clock runs 0..MaxTime
MaxHist == 1         \* get_history requests accepted in a run
MaxWorkers == 2      \* worker loops in the scaled specification
MaxPreload == 2      \* Pending tasks already stored in the scaled specification
HistMaxTasks == 22   \* stored tasks in the history specification
MaxFaults == 2       \* store operations that fail in the faulty-store specification

\* ------------------------------------------------------- program constants
HistoryLimit == 20   \* db.Order("created_at desc").Limit(20)
NumWorkers == 1      \* main starts one taskWorker goroutine

Conns == 1..MaxConns
Workers == 1..MaxWorkers
Prompts == {"cat"}
Impls == {"plain", "tx"}     \* server.go taskWorker, part_001 taskWorker

NoPath == <<>>               \* ImagePath == ""

\* The runs explored: many tasks from one client on a running clock;
\* several clients around one task; one client that also asks for the
\* history while its task is broadcast.
Loads ==
    { [conns |-> 1, tasks |-> MaxTasks, hist |-> 0, time |-> MaxTime],
      [conns |-> MaxConns, tasks |-> 1, hist |-> 0, time |-> 0],
      [conns |-> 1, tasks |-> 1, hist |-> MaxHist, time |-> 0] }

\* Several clients, one of them asking for the history, around one task.
TrafficLoad == [conns |-> MaxConns, tasks |-> 1, hist |-> MaxHist, time |-> 0]

\* No client at all: the stored tasks are all there is.
NoLoad == [conns |-> 0, tasks |-> 0, hist |-> 0, time |-> 0]

\* One client that asks for the history.
HistoryLoad == [conns |-> 1, tasks |-> 0, hist |-> MaxHist, time |-> 0]

VARIABLES
    load,       \* what the clients of this run will ask for (see Loads)
    impl,       \* which taskWorker runs: "plain" (server.go) or "tx" (part_001)
    nworkers,   \* number of taskWorker goroutines started
    now,        \* time.Now()
    tasks,      \* the tasks table: row id -> Task
    wpc,        \* worker -> position in taskWorker
    wtask,      \* worker -> its local `task`
    claimLog,   \* history: <<worker, id>> of every claim step that found a task
    genLog,     \* history: <<id, result, path>> of every runPythonZImage return
    polls,      \* worker -> claim steps that found nothing since it last slept
                \* or finished a task
    clients,    \* the clients map (its key set)
    mutex,      \* "free" or "disp" (held by handleMessages)
    conn,       \* connection -> "new" | "open" | "peerClosed" | "closed"
    spc,        \* connection -> position of its serveWs goroutine
    snew,       \* connection -> the session's local newTask
    sresp,      \* connection -> the session's local resp being written
    dpc,        \* position of handleMessages
    dmsg,       \* handleMessages' local msg
    todo,       \* clients not yet visited by the range loop
    dcur,       \* client being written by handleMessages (0: none)
    published,  \* history: every message received from the broadcast channel,
                \* with the clients registered at that moment (regs) and when
                \* handleMessages locked the mutex to dispatch it (at)
    recv,       \* connection -> the broadcast messages written on the connection
    hrecv,      \* connection -> number of "history" replies written on it
    racedDisp,  \* handleMessages' write in progress overlapped another write
    racedSess,  \* connections whose session write in progress overlapped another
    nhist,      \* get_history requests handled so far
    histReq,    \* connection -> get_history requests its session handled
    crashed,    \* the process died of an unrecovered panic
    faults      \* store operations that have returned an error

vars == <<load, impl, nworkers, now, tasks, wpc, wtask, claimLog, genLog, polls, clients,
          mutex, conn, spc, snew, sresp, dpc, dmsg, todo, dcur, published, recv, hrecv,
          racedDisp, racedSess, nhist, histReq, crashed, faults>>

storeVars == <<tasks>>
workerVars == <<wpc, wtask, claimLog, genLog, polls>>
hubVars == <<clients, mutex, dpc, dmsg, todo, dcur, published>>
sessVars == <<conn, spc, snew, sresp, nhist, histReq>>
wireVars == <<recv, hrecv, racedDisp, racedSess>>
cfgVars == <<load, impl, nworkers, crashed, faults>>

\* ------------------------------------------------------------------ Task
ZeroTask == [id |-> 0, prompt |-> "", status |-> "", imagePath |-> NoPath,
             createdAt |-> 0]

NewTask(p) == [ZeroTask EXCEPT !.prompt = p, !.status = "Pending"]

WSResponse(type, data) == [type |-> type, data |-> data]

\* what the peer finds on the wire where two writes ran into each other
Garbled == WSResponse("garbled", <<>>)

NoMsg == WSResponse("", <<>>)

Ids(ts) == 1..Len(ts)

PendingIds(ts) == {i \in Ids(ts) : ts[i].status = "Pending"}

ProcessingIds(ts) == {i \in Ids(ts) : ts[i].status = "Processing"}

\* ------------------------------------------------------------ TaskStore
\* as OrderBefore, but equal created_at resolved towards the larger id
OrderBeforeIdDesc(a, b) ==
    \/ a.createdAt < b.createdAt
    \/ a.createdAt = b.createdAt /\ a.id > b.id

\* ORDER BY created_at asc, then the primary key that gorm's First appends
OrderBefore(a, b) ==
    \/ a.createdAt < b.createdAt
    \/ a.createdAt = b.createdAt /\ a.id < b.id

\* Where("status = ?", "Pending").Order("created_at asc").First(&task):
\* the id of the row found, 0 for gorm.ErrRecordNotFound
FirstPending(ts) ==
    IF PendingIds(ts) = {} THEN 0
    ELSE CHOOSE i \in PendingIds(ts) :
             \A j \in PendingIds(ts) \ {i} : OrderBefore(ts[i], ts[j])

\* db.Save(&task): update of every column of the row with the task's id
Save(ts, t) == [ts EXCEPT ![t.id] = t]

\* db.Create(&newTask): the row gets the next autoincrement id
Create(ts, t) == Append(ts, [t EXCEPT !.id = Len(ts) + 1])

\* as ClaimStatus, but the claim writes the final status at once
ClaimStatusCompleted == "Completed"

\* task.Status = "Processing"
ClaimStatus == "Processing"

\* as FinalStatus, with the test of genErr the wrong way round
FinalStatusInverted(genErr) == IF genErr THEN "Completed" ELSE "Failed"

\* as FinalStatus, but step 4 leaves the status as it was
FinalStatusKept(genErr) == "Processing"

\* the status of step 4 of taskWorker
FinalStatus(genErr) == IF genErr THEN "Failed" ELSE "Completed"

\* as FinalPath, but the assignment of task.ImagePath is missing
FinalPathKept(genErr, old, imagePath) == old

\* task.ImagePath after step 4: assigned only on success
FinalPath(genErr, old, imagePath) == IF genErr THEN old ELSE imagePath

\* fmt.Sprintf("task_%d_%d.png", id, time.Now().Unix())
FileName(id, t) == <<id, t>>

\* as NotFoundNext, but the loop goes straight back to the claim step
NotFoundNextClaim == "claim"

\* where taskWorker goes on when the claim step found no task: the else
\* branch, time.Sleep
NotFoundNext == "sleep"

\* ------------------------------------------------------------------ hub
\* broadcast <- m on the unbuffered channel: completes when handleMessages
\* is at msg := <-broadcast
Publish(m) ==
    /\ dpc = "recv"
    /\ dpc' = "lock"
    /\ dmsg' = m
    /\ published' = Append(published, [msg |-> m, regs |-> clients, at |-> {}])
    /\ UNCHANGED <<clients, mutex, todo, dcur>>

\* notifyUpdate(task)
NotifyUpdate(t) == Publish(WSResponse("update", <<t>>))

\* --------------------------------------------------------------- worker
Active(w) == w <= nworkers

\* part_001: the whole db.Transaction of one loop iteration
ClaimTx(w) ==
    /\ ~crashed
    /\ impl = "tx" /\ Active(w) /\ wpc[w] = "claim"
    /\ LET id == FirstPending(tasks) IN
         IF id # 0
         THEN LET t == [tasks[id] EXCEPT !.status = ClaimStatus] IN
              /\ tasks' = Save(tasks, t)
              /\ wtask' = [wtask EXCEPT ![w] = t]
              /\ wpc' = [wpc EXCEPT ![w] = "notify1"]
              /\ claimLog' = Append(claimLog, <<w, id>>)
              /\ UNCHANGED polls
         ELSE /\ wpc' = [wpc EXCEPT ![w] = NotFoundNext]
              /\ polls' = [polls EXCEPT ![w] = @ + 1]
              /\ UNCHANGED <<tasks, wtask, claimLog>>
    /\ UNCHANGED <<genLog, now, hubVars, sessVars, wireVars, cfgVars>>

\* server.go: result := db.Where(...).Order(...).First(&task), and
\* task.Status = "Processing" on the local copy
ClaimFirst(w) ==
    /\ ~crashed
    /\ impl = "plain" /\ Active(w) /\ wpc[w] = "claim"
    /\ LET id == FirstPending(tasks) IN
         IF id # 0
         THEN /\ wtask' = [wtask EXCEPT ![w] = [tasks[id] EXCEPT !.status = ClaimStatus]]
              /\ wpc' = [wpc EXCEPT ![w] = "save"]
              /\ UNCHANGED polls
         ELSE /\ wpc' = [wpc EXCEPT ![w] = NotFoundNext]
              /\ polls' = [polls EXCEPT ![w] = @ + 1]
              /\ UNCHANGED wtask
    /\ UNCHANGED <<tasks, claimLog, genLog, now, hubVars, sessVars, wireVars, cfgVars>>

\* server.go: db.Save(&task) of the claim
ClaimSave(w) ==
    /\ ~crashed
    /\ impl = "plain" /\ Active(w) /\ wpc[w] = "save"
    /\ tasks' = Save(tasks, wtask[w])
    /\ wpc' = [wpc EXCEPT ![w] = "notify1"]
    /\ claimLog' = Append(claimLog, <<w, wtask[w].id>>)
    /\ UNCHANGED <<wtask, genLog, polls, now, clients, mutex, dpc, dmsg, todo, dcur,
                   published, sessVars, wireVars, cfgVars>>

\* notifyUpdate(task) after the claim
NotifyProcessing(w) ==
    /\ ~crashed
    /\ Active(w) /\ wpc[w] = "notify1"
    /\ NotifyUpdate(wtask[w])
    /\ wpc' = [wpc EXCEPT ![w] = "gen"]
    /\ UNCHANGED <<wtask, claimLog, genLog, polls, now, storeVars, sessVars, wireVars,
                   cfgVars>>

\* imagePath, genErr := runPythonZImage(task.Prompt, task.ID), and step 4 on
\* the local task
RunPythonZImage(w) ==
    /\ ~crashed
    /\ Active(w) /\ wpc[w] = "gen"
    /\ \E genErr \in BOOLEAN :
         LET imagePath == IF genErr THEN NoPath ELSE FileName(wtask[w].id, now) IN
         /\ wtask' = [wtask EXCEPT ![w] =
                        [@ EXCEPT !.status = FinalStatus(genErr),
                                  !.imagePath = FinalPath(genErr, @, imagePath)]]
         /\ genLog' = genLog \cup {<<wtask[w].id, genErr, imagePath>>}
    /\ wpc' = [wpc EXCEPT ![w] = "final"]
    /\ UNCHANGED <<claimLog, polls, now, storeVars, hubVars, sessVars, wireVars, cfgVars>>

\* db.Save(&task) of the final result
FinalSave(w) ==
    /\ ~crashed
    /\ Active(w) /\ wpc[w] = "final"
    /\ tasks' = Save(tasks, wtask[w])
    /\ wpc' = [wpc EXCEPT ![w] = "notify2"]
    /\ UNCHANGED <<wtask, claimLog, genLog, polls, now, hubVars, sessVars, wireVars,
                   cfgVars>>

\* notifyUpdate(task) after the final save; the loop starts over with a
\* fresh `var task Task`
NotifyFinished(w) ==
    /\ ~crashed
    /\ Active(w) /\ wpc[w] = "notify2"
    /\ NotifyUpdate(wtask[w])
    /\ wpc' = [wpc EXCEPT ![w] = "claim"]
    /\ wtask' = [wtask EXCEPT ![w] = ZeroTask]
    /\ polls' = [polls EXCEPT ![w] = 0]
    /\ UNCHANGED <<claimLog, genLog, now, storeVars, sessVars, wireVars, cfgVars>>

\* time.Sleep(2 * time.Second)
Sleep(w) ==
    /\ ~crashed
    /\ Active(w) /\ wpc[w] = "sleep"
    /\ wpc' = [wpc EXCEPT ![w] = "claim"]
    /\ polls' = [polls EXCEPT ![w] = 0]
    /\ UNCHANGED <<wtask, claimLog, genLog, now, storeVars, hubVars, sessVars,
                   wireVars, cfgVars>>

\* ------------------------------------------------- failing store operations
\* the steps of db.Transaction the error can come from: Begin or First (an
\* error other than ErrRecordNotFound), tx.Save, Commit
TxSteps == {"first", "save", "commit"}

\* part_001: db.Transaction returns an error.  The function passed to it
\* sets found = true before it returns, that is before the commit: when
\* the commit fails the write is rolled back and found stays true.
ClaimTxFail(w) ==
    /\ ~crashed
    /\ impl = "tx" /\ Active(w) /\ wpc[w] = "claim"
    /\ faults < MaxFaults
    /\ faults' = faults + 1
    /\ \E at \in TxSteps :
         LET id == FirstPending(tasks) IN
         /\ at \in {"save", "commit"} => id # 0
         /\ IF at = "commit"
            THEN /\ wtask' = [wtask EXCEPT ![w] = [tasks[id] EXCEPT !.status = ClaimStatus]]
                 /\ wpc' = [wpc EXCEPT ![w] = "notify1"]
                 /\ claimLog' = Append(claimLog, <<w, id>>)
                 /\ UNCHANGED polls
            ELSE /\ wpc' = [wpc EXCEPT ![w] = NotFoundNext]
                 /\ polls' = [polls EXCEPT ![w] = @ + 1]
                 /\ UNCHANGED <<wtask, claimLog>>
    /\ UNCHANGED <<tasks, genLog, now, hubVars, sessVars, wireVars, load, impl,
                   nworkers, crashed>>

\* server.go: First returns an error other than ErrRecordNotFound;
\* result.Error != nil takes the else branch
ClaimFirstFail(w) ==
    /\ ~crashed
    /\ impl = "plain" /\ Active(w) /\ wpc[w] = "claim"
    /\ faults < MaxFaults
    /\ faults' = faults + 1
    /\ wpc' = [wpc EXCEPT ![w] = NotFoundNext]
    /\ polls' = [polls EXCEPT ![w] = @ + 1]
    /\ UNCHANGED <<tasks, wtask, claimLog, genLog, now, hubVars, sessVars, wireVars,
                   load, impl, nworkers, crashed>>

\* server.go: db.Save(&task) of the claim returns an error, which is dropped
ClaimSaveFail(w) ==
    /\ ~crashed
    /\ impl = "plain" /\ Active(w) /\ wpc[w] = "save"
    /\ faults < MaxFaults
    /\ faults' = faults + 1
    /\ wpc' = [wpc EXCEPT ![w] = "notify1"]
    /\ claimLog' = Append(claimLog, <<w, wtask[w].id>>)
    /\ UNCHANGED <<tasks, wtask, genLog, polls, now, hubVars, sessVars, wireVars,
                   load, impl, nworkers, crashed>>

\* db.Save(&task) of the final result returns an error, which is dropped
FinalSaveFail(w) ==
    /\ ~crashed
    /\ Active(w) /\ wpc[w] = "final"
    /\ faults < MaxFaults
    /\ faults' = faults + 1
    /\ wpc' = [wpc EXCEPT ![w] = "notify2"]
    /\ UNCHANGED <<tasks, wtask, claimLog, genLog, polls, now, hubVars, sessVars,
                   wireVars, load, impl, nworkers, crashed>>

\* the clock
Tick ==
    /\ ~crashed
    /\ now < load.time
    /\ now' = now + 1
    /\ UNCHANGED <<storeVars, workerVars, hubVars, sessVars, wireVars, cfgVars>>

\* ------------------------------------------------------------ TaskStore
\* as HistoryBefore, but ORDER BY created_at asc
HistoryBeforeAsc(a, b, tie) ==
    \/ a.createdAt < b.createdAt
    \/ a.createdAt = b.createdAt /\ (IF tie = "asc" THEN a.id < b.id ELSE a.id > b.id)

\* ORDER BY created_at desc; the order among equal created_at is the
\* database's choice, tie says which way it went
HistoryBefore(a, b, tie) ==
    \/ a.createdAt > b.createdAt
    \/ a.createdAt = b.createdAt /\ (IF tie = "asc" THEN a.id < b.id ELSE a.id > b.id)

RECURSIVE OrderedTake(_, _, _, _)
OrderedTake(ts, S, n, tie) ==
    IF S = {} \/ n = 0 THEN <<>>
    ELSE LET i == CHOOSE i \in S : \A j \in S \ {i} : HistoryBefore(ts[i], ts[j], tie)
         IN <<ts[i]>> \o OrderedTake(ts, S \ {i}, n - 1, tie)

\* db.Order("created_at desc").Limit(limit).Find(&tasks)
RecentHistory(ts, limit, tie) == OrderedTake(ts, Ids(ts), limit, tie)

Ties == {"asc", "desc"}

\* ----------------------------------------------------- connection writes
\* What a WriteMessage / WriteJSON on a connection in state st can end in.
\* gorilla/websocket allows one writer at a time: a write that overlapped
\* another one may still go through, may leave mixed frames on the wire, or
\* may panic ("concurrent write to websocket connection").
WriteOutcomes(st, raced) ==
    IF st = "closed" THEN {"error"}
    ELSE (IF st = "peerClosed" THEN {"ok", "error"} ELSE {"ok"})
         \cup (IF raced THEN {"garbled", "panic"} ELSE {})

Written(c, seq, m) == [recv EXCEPT ![c] = Append(@, [seq |-> seq, msg |-> m])]

\* ----------------------------------------------------------- handleMessages
\* mutex.Lock() and the start of `for client := range clients`
DispLock ==
    /\ ~crashed
    /\ dpc = "lock" /\ mutex = "free"
    /\ mutex' = "disp"
    /\ todo' = clients
    /\ dpc' = "range"
    /\ published' = [published EXCEPT ![Len(published)].at = clients]
    /\ UNCHANGED <<clients, dmsg, dcur, now, storeVars, workerVars, sessVars,
                   wireVars, cfgVars>>

\* as AfterWrite, but a connection whose write failed stays registered
AfterWriteKept(cs, c, o) == cs

\* the clients map once client.WriteMessage on c has ended in o: on an error
\* delete(clients, client)
AfterWrite(cs, c, o) == IF o = "error" THEN cs \ {c} ELSE cs

\* the range loop reaches client c: client.WriteMessage(...) starts
DispWriteBegin(c) ==
    /\ ~crashed
    /\ dpc = "range" /\ c \in todo
    /\ todo' = todo \ {c}
    /\ dcur' = c
    /\ dpc' = "write"
    /\ IF spc[c] = "hwrite"
       THEN racedDisp' = TRUE /\ racedSess' = racedSess \cup {c}
       ELSE UNCHANGED <<racedDisp, racedSess>>
    /\ UNCHANGED <<clients, mutex, dmsg, published, recv, hrecv, now, storeVars,
                   workerVars, sessVars, cfgVars>>

\* client.WriteMessage(...) returns; on error client.Close() and
\* delete(clients, client)
DispWriteEnd ==
    /\ ~crashed
    /\ dpc = "write"
    /\ \E o \in WriteOutcomes(conn[dcur], racedDisp) :
         /\ recv' = IF o = "ok" THEN Written(dcur, Len(published), dmsg)
                    ELSE IF o = "garbled" THEN Written(dcur, Len(published), Garbled)
                    ELSE recv
         /\ conn' = IF o = "error" THEN [conn EXCEPT ![dcur] = "closed"] ELSE conn
         /\ clients' = AfterWrite(clients, dcur, o)
         /\ crashed' = (o = "panic")
    /\ dpc' = "range"
    /\ dcur' = 0
    /\ racedDisp' = FALSE
    /\ UNCHANGED <<mutex, dmsg, todo, published, hrecv, racedSess, spc, snew, sresp,
                   nhist, histReq, now, storeVars, workerVars, load, impl, nworkers,
                   faults>>

\* the range loop is over: mutex.Unlock(), back to msg := <-broadcast
DispUnlock ==
    /\ ~crashed
    /\ dpc = "range" /\ todo = {}
    /\ mutex' = "free"
    /\ dpc' = "recv"
    /\ dmsg' = NoMsg
    /\ UNCHANGED <<clients, todo, dcur, published, now, storeVars, workerVars,
                   sessVars, wireVars, cfgVars>>

\* ------------------------------------------------------------------ serveWs
\* create_task requests accepted so far (stored or about to be)
Accepted == Len(tasks) + Cardinality({c \in Conns : spc[c] = "create"})

\* ws, err := upgrader.Upgrade(w, r, nil); on error the handler returns
Upgrade(c) ==
    /\ ~crashed
    /\ spc[c] = "new" /\ c <= load.conns
    /\ \E ok \in BOOLEAN :
         /\ spc' = [spc EXCEPT ![c] = IF ok THEN "register" ELSE "done"]
         /\ conn' = [conn EXCEPT ![c] = IF ok THEN "open" ELSE "closed"]
    /\ UNCHANGED <<snew, sresp, nhist, histReq, now, storeVars, workerVars,
                   hubVars, wireVars, cfgVars>>

\* mutex.Lock(); clients[ws] = true; mutex.Unlock()
Register(c) ==
    /\ ~crashed
    /\ spc[c] = "register" /\ mutex = "free"
    /\ clients' = clients \cup {c}
    /\ spc' = [spc EXCEPT ![c] = "read"]
    /\ UNCHANGED <<mutex, dpc, dmsg, todo, dcur, published, conn, snew, sresp,
                   nhist, histReq, now, storeVars, workerVars, wireVars, cfgVars>>

\* the peer goes away
PeerClose(c) ==
    /\ ~crashed
    /\ conn[c] = "open"
    /\ conn' = [conn EXCEPT ![c] = "peerClosed"]
    /\ UNCHANGED <<spc, snew, sresp, nhist, histReq, now, storeVars, workerVars,
                   hubVars, wireVars, cfgVars>>

\* ws.ReadJSON(&msg) fails (connection gone, or a message that is not JSON)
ReadFail(c) ==
    /\ ~crashed
    /\ spc[c] = "read"
    /\ spc' = [spc EXCEPT ![c] = "unregister"]
    /\ UNCHANGED <<conn, snew, sresp, nhist, histReq, now, storeVars, workerVars,
                   hubVars, wireVars, cfgVars>>

\* as Unregistered, but the session leaves its connection registered
UnregisteredKept(cs, c) == cs

\* delete(clients, ws)
Unregistered(cs, c) == cs \ {c}

\* mutex.Lock(); delete(clients, ws); mutex.Unlock(); break, and the
\* deferred ws.Close()
Unregister(c) ==
    /\ ~crashed
    /\ spc[c] = "unregister" /\ mutex = "free"
    /\ clients' = Unregistered(clients, c)
    /\ conn' = [conn EXCEPT ![c] = "closed"]
    /\ spc' = [spc EXCEPT ![c] = "done"]
    /\ UNCHANGED <<mutex, dpc, dmsg, todo, dcur, published, snew, sresp, nhist,
                   histReq, now, storeVars, workerVars, wireVars, cfgVars>>

\* the reply a get_history request is answered with
HistoryReply(ts, tie) == WSResponse("history", RecentHistory(ts, HistoryLimit, tie))

\* msg.Type == "get_history": the query, and ws.WriteJSON(resp) starts
GetHistory(c) ==
    /\ ~crashed
    /\ spc[c] = "read" /\ conn[c] = "open" /\ nhist < load.hist
    /\ \E tie \in Ties : sresp' = [sresp EXCEPT ![c] = HistoryReply(tasks, tie)]
    /\ spc' = [spc EXCEPT ![c] = "hwrite"]
    /\ nhist' = nhist + 1
    /\ histReq' = [histReq EXCEPT ![c] = @ + 1]
    /\ IF dpc = "write" /\ dcur = c
       THEN racedDisp' = TRUE /\ racedSess' = racedSess \cup {c}
       ELSE UNCHANGED <<racedDisp, racedSess>>
    /\ UNCHANGED <<conn, snew, recv, hrecv, now, storeVars, workerVars, hubVars,
                   cfgVars>>

\* as ReplyConn, but the reply goes to the next connection
ReplyConnNext(c) == (c % MaxConns) + 1

\* the connection ws.WriteJSON(resp) writes to: the session's own
ReplyConn(c) == c

\* ws.WriteJSON(resp) returns (its error is dropped); a panic ends the
\* handler, whose deferred ws.Close() runs, and net/http recovers it
HistoryWriteEnd(c) ==
    /\ ~crashed
    /\ spc[c] = "hwrite"
    /\ \E o \in WriteOutcomes(conn[c], c \in racedSess) :
         /\ hrecv' = IF o = "ok" THEN [hrecv EXCEPT ![ReplyConn(c)] = @ + 1]
                     ELSE hrecv
         /\ spc' = [spc EXCEPT ![c] = IF o = "panic" THEN "done" ELSE "read"]
         /\ conn' = IF o = "panic" THEN [conn EXCEPT ![c] = "closed"] ELSE conn
    /\ sresp' = [sresp EXCEPT ![c] = NoMsg]
    /\ racedSess' = racedSess \ {c}
    /\ UNCHANGED <<recv, racedDisp, snew, nhist, histReq, now, storeVars, workerVars,
                   hubVars, cfgVars>>

\* msg.Type == "create_task": newTask is built and db.Create stamps
\* created_at with the current time
CreateTask(c) ==
    /\ ~crashed
    /\ spc[c] = "read" /\ conn[c] = "open" /\ Accepted < load.tasks
    /\ \E p \in Prompts :
         snew' = [snew EXCEPT ![c] = [NewTask(p) EXCEPT !.createdAt = now]]
    /\ spc' = [spc EXCEPT ![c] = "create"]
    /\ UNCHANGED <<conn, sresp, nhist, histReq, now, storeVars, workerVars,
                   hubVars, wireVars, cfgVars>>

\* db.Create(&newTask): the INSERT; newTask.ID is filled in
DbCreate(c) ==
    /\ ~crashed
    /\ spc[c] = "create"
    /\ tasks' = Create(tasks, snew[c])
    /\ snew' = [snew EXCEPT ![c] = tasks'[Len(tasks')]]
    /\ spc' = [spc EXCEPT ![c] = "publish"]
    /\ UNCHANGED <<conn, sresp, nhist, histReq, now, workerVars, hubVars,
                   wireVars, cfgVars>>

\* broadcast <- jsonResp of the new_task response
PublishNewTask(c) ==
    /\ ~crashed
    /\ spc[c] = "publish"
    /\ Publish(WSResponse("new_task", <<snew[c]>>))
    /\ spc' = [spc EXCEPT ![c] = "read"]
    /\ snew' = [snew EXCEPT ![c] = ZeroTask]
    /\ UNCHANGED <<conn, sresp, nhist, histReq, now, storeVars, workerVars,
                   wireVars, cfgVars>>

\* ------------------------------------------------------------ the program
\* main: a fresh queue.db, one taskWorker, handleMessages, no connection yet
InitCommon ==
    /\ impl \in Impls
    /\ now = 0
    /\ wpc = [w \in Workers |-> "claim"]
    /\ wtask = [w \in Workers |-> ZeroTask]
    /\ claimLog = <<>>
    /\ genLog = {}
    /\ polls = [w \in Workers |-> 0]
    /\ clients = {}
    /\ mutex = "free"
    /\ conn = [c \in Conns |-> "new"]
    /\ spc = [c \in Conns |-> "new"]
    /\ snew = [c \in Conns |-> ZeroTask]
    /\ sresp = [c \in Conns |-> NoMsg]
    /\ dpc = "recv"
    /\ dmsg = NoMsg
    /\ todo = {}
    /\ dcur = 0
    /\ published = <<>>
    /\ recv = [c \in Conns |-> <<>>]
    /\ hrecv = [c \in Conns |-> 0]
    /\ racedDisp = FALSE
    /\ racedSess = {}
    /\ nhist = 0
    /\ histReq = [c \in Conns |-> 0]
    /\ crashed = FALSE
    /\ faults = 0

Init ==
    /\ InitCommon
    /\ load \in Loads
    /\ nworkers = NumWorkers
    /\ tasks = <<>>

WorkerStep(w) ==
    \/ ClaimTx(w)
    \/ ClaimFirst(w)
    \/ ClaimSave(w)
    \/ NotifyProcessing(w)
    \/ RunPythonZImage(w)
    \/ FinalSave(w)
    \/ NotifyFinished(w)
    \/ Sleep(w)

DispStep ==
    \/ DispLock
    \/ \E c \in Conns : DispWriteBegin(c)
    \/ DispWriteEnd
    \/ DispUnlock

SessStep(c) ==
    \/ Upgrade(c)
    \/ Register(c)
    \/ PeerClose(c)
    \/ ReadFail(c)
    \/ Unregister(c)
    \/ GetHistory(c)
    \/ HistoryWriteEnd(c)
    \/ CreateTask(c)
    \/ DbCreate(c)
    \/ PublishNewTask(c)

Next ==
    \/ Tick
    \/ \E w \in Workers : WorkerStep(w)
    \/ DispStep
    \/ \E c \in Conns : SessStep(c)

Spec == Init /\ [][Next]_vars

\* ------------------------------------------------------------ scheduling
\* The goroutines are scheduled fairly and every call returns: the worker
\* goes on whenever it can (its sends included, once handleMessages
\* receives), handleMessages goes on, and a session finishes what it has
\* begun.  What the peers do (connect, send a request, go away) is up to
\* them.
SessReturns(c) ==
    \/ Register(c)
    \/ Unregister(c)
    \/ HistoryWriteEnd(c)
    \/ DbCreate(c)
    \/ PublishNewTask(c)

Fairness ==
    /\ \A w \in Workers : WF_vars(WorkerStep(w))
    /\ WF_vars(DispStep)
    /\ \A c \in Conns : WF_vars(SessReturns(c))

SpecFair == Init /\ [][Next]_vars /\ Fairness

\* ------------------------------------------- history replies under traffic
\* part_001 with several clients, one of which asks for the history while
\* the task of another is broadcast
InitTraffic ==
    /\ InitCommon
    /\ impl = "tx"
    /\ load = TrafficLoad
    /\ nworkers = NumWorkers
    /\ tasks = <<>>

WorkerStepTx(w) ==
    \/ ClaimTx(w)
    \/ NotifyProcessing(w)
    \/ RunPythonZImage(w)
    \/ FinalSave(w)
    \/ NotifyFinished(w)
    \/ Sleep(w)

NextTraffic ==
    \/ \E w \in Workers : WorkerStepTx(w)
    \/ DispStep
    \/ \E c \in Conns : SessStep(c)

SpecTraffic == InitTraffic /\ [][NextTraffic]_vars

\* ------------------------------------------------- several worker loops
\* A store that already holds n Pending tasks, created at any times up to
\* now, and several taskWorker goroutines; no client connects.
StoredPending(stamps) ==
    [i \in 1..Len(stamps) |->
        [NewTask("cat") EXCEPT !.id = i, !.createdAt = stamps[i]]]

PreloadedStores ==
    UNION { {StoredPending(st) : st \in [1..n -> 0..MaxTime]} : n \in 0..MaxPreload }

InitScaled ==
    /\ InitCommon
    /\ load = NoLoad
    /\ nworkers \in 1..MaxWorkers
    /\ tasks \in PreloadedStores

DispIdleStep ==
    \/ DispLock
    \/ DispUnlock

NextScaled ==
    \/ \E w \in Workers : WorkerStep(w)
    \/ DispIdleStep

SpecScaled == InitScaled /\ [][NextScaled]_vars

\* ------------------------------------------------------ the history query
\* A store of n tasks of which the first k were created at time r and the
\* others at 1 - r (ids and created_at may disagree: created_at is stamped
\* before the INSERT), and one client that asks for the history.
StoredAt(n, k, r) ==
    [i \in 1..n |->
        [NewTask("cat") EXCEPT !.id = i, !.createdAt = IF i <= k THEN r ELSE 1 - r]]

HistoryStores ==
    { StoredAt(n, k, r) : n \in 0..HistMaxTasks, k \in 0..HistMaxTasks, r \in {0, 1} }

InitHistory ==
    /\ InitCommon
    /\ impl = "tx"
    /\ load = HistoryLoad
    /\ nworkers = NumWorkers
    /\ tasks \in HistoryStores

NextHistory ==
    \E c \in Conns :
        \/ Upgrade(c)
        \/ Register(c)
        \/ PeerClose(c)
        \/ ReadFail(c)
        \/ Unregister(c)
        \/ GetHistory(c)
        \/ HistoryWriteEnd(c)

SpecHistory == InitHistory /\ [][NextHistory]_vars

\* ------------------------------------------------------- a failing store
\* The one taskWorker of main on a store that already holds Pending tasks
\* and whose operations may return an error; no client connects.
InitFaulty ==
    /\ InitCommon
    /\ load = NoLoad
    /\ nworkers = NumWorkers
    /\ tasks \in PreloadedStores

StoreFailStep(w) ==
    \/ ClaimTxFail(w)
    \/ ClaimFirstFail(w)
    \/ ClaimSaveFail(w)
    \/ FinalSaveFail(w)

NextFaulty ==
    \/ \E w \in Workers : WorkerStep(w)
    \/ \E w \in Workers : StoreFailStep(w)
    \/ DispIdleStep

SpecFaulty == InitFaulty /\ [][NextFaulty]_vars

\* ======================================================================
\* Claims
\* ======================================================================
Terminal == {"Completed", "Failed"}

Busy(w) == Active(w) /\ wpc[w] \notin {"claim", "sleep"}

\* C1 -- Claim exclusivity: whatever the number of worker loops, no two
\* claim steps return the same task id, and once no task is Pending and no
\* claim step is under way the number of claims made equals the number M
\* of tasks that were Pending.
ClaimExclusivity ==
    /\ \A i, j \in 1..Len(claimLog) : i # j => claimLog[i][2] # claimLog[j][2]
    /\ (PendingIds(tasks) = {} /\ \A w \in Workers : wpc[w] # "save")
          => Len(claimLog) = Len(tasks)

\* The claim step of part_001 (db.Transaction) does keep claims exclusive;
\* it is the read-then-save claim step of server.go that does not.
ClaimExclusivityTx == impl = "tx" => ClaimExclusivity

\* C2 -- Monotonic status: a task is stored as Pending, and the stored
\* status of a task only ever moves Pending -> Processing ->
\* Completed|Failed; a Completed or Failed status never changes again.
LegalEdge(a, b) ==
    \/ a = b
    \/ a = "Pending" /\ b = "Processing"
    \/ a = "Processing" /\ b \in Terminal

IsOldestPending(id, ts) ==
    /\ id \in PendingIds(ts)
    /\ \A j \in PendingIds(ts) :
          \/ ts[id].createdAt < ts[j].createdAt
          \/ ts[id].createdAt = ts[j].createdAt /\ id <= j

FifoClaim ==
    [][ \A w \in Workers :
          (wpc[w] = "claim" /\ wpc'[w] \in {"save", "notify1"})
             => /\ IsOldestPending(wtask'[w].id, tasks)
                /\ wtask'[w] = [tasks[wtask'[w].id] EXCEPT !.status = "Processing"] ]_vars

\* C3 witness: task 1 was claimed while task 2, created at the same time,
\* is Pending
TieClaimed ==
    \E w \in Workers :
        /\ wpc[w] = "notify1" /\ wtask[w].id = 1
        /\ Len(tasks) >= 2
        /\ tasks[2].status = "Pending"
        /\ tasks[2].createdAt = tasks[1].createdAt

\* number of published events whose dispatch is over
Dispatched == Len(published) - (IF dpc = "recv" THEN 0 ELSE 1)

\* connection c was sent event k, as published
Got(c, k) ==
    \E n \in 1..Len(recv[c]) :
        recv[c][n].seq = k /\ recv[c][n].msg = published[k].msg

\* connection c was sent event k1 and later event k2, as published
GotInOrder(c, k1, k2) ==
    \E m, n \in 1..Len(recv[c]) :
        /\ m < n
        /\ recv[c][m].seq = k1 /\ recv[c][m].msg = published[k1].msg
        /\ recv[c][n].seq = k2 /\ recv[c][n].msg = published[k2].msg

\* C4 -- Broadcast order: a connection that is registered when events e1
\* and e2 (published in that order) are dispatched receives e1 before e2;
\* and a connection registered before an event is published and still
\* registered at its dispatch receives that event.
BroadcastOrder ==
    /\ \A c \in clients : \A k1, k2 \in 1..Dispatched :
          (k1 < k2 /\ c \in published[k1].at /\ c \in published[k2].at)
             => GotInOrder(c, k1, k2)
    /\ \A c \in clients : \A k \in 1..Dispatched :
          (c \in published[k].regs /\ c \in published[k].at) => Got(c, k)

\* What is left of C4 when two writes run into each other on a connection:
\* every such connection was written to, in publish order, but what arrived
\* may be mixed frames.
WrittenTo(c, k) == \E n \in 1..Len(recv[c]) : recv[c][n].seq = k

BroadcastOrderOfWrites ==
    /\ \A c \in Conns : \A m, n \in 1..Len(recv[c]) :
          m < n => recv[c][m].seq < recv[c][n].seq
    /\ \A c \in Conns : \A n \in 1..Len(recv[c]) :
          recv[c][n].msg \in {published[recv[c][n].seq].msg, Garbled}
    /\ \A c \in clients : \A k \in 1..Dispatched :
          c \in published[k].at => WrittenTo(c, k)

\* C5 -- History privacy: a "history" reply is written only on the
\* connection whose session handled the get_history request; no "history"
\* message is ever sent on the broadcast channel, held by handleMessages or
\* written to a connection by it.
HistoryPrivacy ==
    /\ \A c \in Conns : hrecv[c] <= histReq[c]
    /\ \A k \in 1..Len(published) : published[k].msg.type # "history"
    /\ dmsg.type # "history"
    /\ \A c \in Conns : \A n \in 1..Len(recv[c]) : recv[c][n].msg.type # "history"

\* C5 witness: one connection got its history reply, and another, still
\* registered, got a broadcast and no history
HistoryRepliedAmongOthers ==
    \E c, d \in Conns :
        /\ c # d
        /\ hrecv[c] = 1
        /\ d \in clients /\ Len(recv[d]) > 0 /\ hrecv[d] = 0

\* C6 -- create_task fan-out: the task of a create_task request is stored
\* as Pending, a "new_task" event carrying it is published, and the event
\* reaches every connection registered when it is dispatched (the
\* requester included).
Stored(t) ==
    /\ t.id \in Ids(tasks)
    /\ tasks[t.id].prompt = t.prompt
    /\ tasks[t.id].createdAt = t.createdAt

CreateTaskFanOut ==
    /\ \A c \in Conns : spc[c] = "publish" =>
          Stored(snew[c]) /\ snew[c].status = "Pending"
    /\ \A i \in Ids(tasks) :
          (\A c \in Conns : ~(spc[c] = "publish" /\ snew[c].id = i))
             => \E k \in 1..Len(published) :
                   /\ published[k].msg.type = "new_task"
                   /\ published[k].msg.data[1].id = i
    /\ \A k \in 1..Len(published) : published[k].msg.type = "new_task" =>
          /\ Stored(published[k].msg.data[1])
          /\ published[k].msg.data[1].status = "Pending"
          /\ k <= Dispatched => \A c \in published[k].at \cap clients : Got(c, k)

\* What is left of C6 when two writes run into each other on a connection
CreateTaskFanOutOfWrites ==
    /\ \A c \in Conns : spc[c] = "publish" =>
          Stored(snew[c]) /\ snew[c].status = "Pending"
    /\ \A k \in 1..Len(published) : published[k].msg.type = "new_task" =>
          /\ Stored(published[k].msg.data[1])
          /\ k <= Dispatched => \A c \in published[k].at \cap clients : WrittenTo(c, k)

\* the worker holding task id at one of the given positions
WorkerAt(id, pcs) == \E w \in Workers : Active(w) /\ wtask[w].id = id /\ wpc[w] \in pcs

\* an "update" event for task id carrying status st has been published
UpdatePublished(id, st) ==
    \E k \in 1..Len(published) :
        /\ published[k].msg.type = "update"
        /\ published[k].msg.data[1].id = id
        /\ published[k].msg.data[1].status = st

PathOnlyIfCompleted ==
    \A i \in Ids(tasks) : tasks[i].imagePath # NoPath => tasks[i].status = "Completed"

PathWrittenOnCompletion ==
    /\ \A i \in Ids(tasks) :
          /\ tasks'[i].imagePath # tasks[i].imagePath =>
                /\ tasks[i].imagePath = NoPath
                /\ tasks[i].status # "Completed" /\ tasks'[i].status = "Completed"
                /\ <<i, FALSE, tasks'[i].imagePath>> \in genLog
          /\ (tasks[i].status # "Completed" /\ tasks'[i].status = "Completed") =>
                tasks'[i].imagePath # NoPath
    /\ \A i \in Ids(tasks') \ Ids(tasks) : tasks'[i].imagePath = NoPath

ResultPath == []PathOnlyIfCompleted /\ [][PathWrittenOnCompletion]_vars

\* C9 witness: one task is stored Completed with its path, another Failed
PathStored ==
    /\ \E i \in Ids(tasks) : tasks[i].status = "Completed" /\ tasks[i].imagePath # NoPath
    /\ \E i \in Ids(tasks) : tasks[i].status = "Failed"

\* C10 -- History bound and order: the reply to get_history holds at most
\* 20 tasks of the store, in descending createdAt order, and no task left
\* out is newer than a task in the reply (tasks are left out only when the
\* reply is full).
InReply(h, i) == \E n \in 1..Len(h) : h[n].id = i

HistoryBoundAndOrder ==
    \A c \in Conns : spc[c] = "hwrite" =>
        LET h == sresp[c].data IN
        /\ sresp[c].type = "history"
        /\ Len(h) <= 20
        /\ \A n \in 1..Len(h) : h[n].id \in Ids(tasks) /\ h[n] = tasks[h[n].id]
        /\ \A m, n \in 1..Len(h) :
              m < n => h[m].id # h[n].id /\ h[m].createdAt >= h[n].createdAt
        /\ \A i \in Ids(tasks) : ~InReply(h, i) =>
              /\ Len(h) = 20
              /\ \A n \in 1..Len(h) : tasks[i].createdAt <= h[n].createdAt

\* C10 witness: more than 20 tasks are stored, the older ones with the
\* larger ids; the reply is full and holds tasks of both ages
HistoryTruncated ==
    \E c \in Conns :
        /\ spc[c] = "hwrite"
        /\ Len(tasks) > 20
        /\ Len(sresp[c].data) = 20
        /\ sresp[c].data[1].createdAt > sresp[c].data[20].createdAt
        /\ tasks[1].createdAt > tasks[Len(tasks)].createdAt

\* C11 -- Empty-queue backoff: a claim step that finds no Pending task
\* leaves every task as it is and hands the worker no task, and the worker
\* sleeps before its next claim step: two claim steps never follow each
\* other without a finished task or a sleep between them.
ClaimFoundNothing(w) == polls'[w] > polls[w]

BackoffPending == \A w \in Workers : polls[w] <= 1

BackoffStep ==
    \A w \in Workers :
        /\ ClaimFoundNothing(w) =>
              /\ PendingIds(tasks) = {}
              /\ tasks' = tasks
              /\ wtask'[w] = ZeroTask
              /\ wpc'[w] = "sleep"
        /\ (wpc[w] = "sleep" /\ wpc'[w] # "sleep") => wpc'[w] = "claim" /\ tasks' = tasks
        /\ (wpc[w] # "claim" /\ wpc'[w] = "claim") => wpc[w] \in {"sleep", "notify2"}

EmptyQueueBackoff == []BackoffPending /\ [][BackoffStep]_vars

\* C11 witness: every stored task is finished, and the worker found nothing
\* on its next claim step and is asleep
AsleepAfterWork ==
    \E w \in Workers :
        /\ wpc[w] = "sleep" /\ polls[w] = 1
        /\ Len(tasks) > 0
        /\ \A i \in Ids(tasks) : tasks[i].status \in Terminal

\* C12 -- Notify before delegate: when runPythonZImage is invoked for a
\* task, the task is stored Processing and an "update" event carrying
\* status Processing has been published for it; and an "update" event
\* carrying a final status is published only when the store holds that
\* final status.
FinishedEventAfterWrite ==
    \A k \in 1..Len(published) :
        LET t == published[k].msg.data[1] IN
        (published[k].msg.type = "update" /\ t.status \in Terminal)
           => tasks[t.id].status = t.status

NotifyBeforeDelegate ==
    /\ \A w \in Workers : (Active(w) /\ wpc[w] = "gen") =>
          /\ tasks[wtask[w].id].status = "Processing"
          /\ UpdatePublished(wtask[w].id, "Processing")
    /\ \A e \in genLog : UpdatePublished(e[1], "Processing")
    /\ FinishedEventAfterWrite

\* C13 -- Storage-error consistency: whatever store operation of the worker
\* failed, a task that the worker goes on with is not still Pending in the
\* store, and a task stored Processing is held by the worker that has yet
\* to write its final status: no task stays Processing for ever.
StorageErrorConsistency ==
    \A i \in Ids(tasks) :
        /\ tasks[i].status = "Pending" =>
              ~WorkerAt(i, {"notify1", "gen", "final", "notify2"})
        /\ tasks[i].status = "Processing" => WorkerAt(i, {"notify1", "gen", "final"})

\* C20 -- Events agree with the store: the task an "update" event carries
\* is, at the moment the event is published, the task the store holds
\* under that id (status and ImagePath included).
PublishedNow == Len(published') > Len(published)

EventsAgreeWithStore ==
    [][ PublishedNow =>
          LET m == published'[Len(published')].msg IN
          m.type = "update" => m.data[1] = tasks[m.data[1].id] ]_vars

\* a publisher is at its send on the broadcast channel
PublisherWaiting ==
    \/ \E w \in Workers : Active(w) /\ wpc[w] \in {"notify1", "notify2"}
    \/ \E c \in Conns : spc[c] = "publish"

\* C14 -- Publish does not wait for delivery: no publisher (notifyUpdate of
\* the worker, create_task of a session) is held at its send on the
\* broadcast channel while handleMessages is writing an event to the
\* connections.
PublishNotHeldByDelivery == ~(PublisherWaiting /\ dpc \in {"range", "write"})

\* C17 -- Single writer per connection: two writes on one connection are
\* never in progress at once; the session's "history" reply never overlaps
\* the broadcast write of handleMessages on the same connection.
SingleWriter ==
    /\ \A c \in Conns : ~(dpc = "write" /\ dcur = c /\ spc[c] = "hwrite")
    /\ ~racedDisp /\ racedSess = {}

\* published event k tells of task id: as "new_task", or as "update"
\* carrying one of the given statuses
IsNewTask(k, id) ==
    published[k].msg.type = "new_task" /\ published[k].msg.data[1].id = id

IsUpdate(k, id, sts) ==
    /\ published[k].msg.type = "update"
    /\ published[k].msg.data[1].id = id
    /\ published[k].msg.data[1].status \in sts

\* C18 -- Per-task event order: the "new_task" event of a task is published
\* before any "update" event for it, and its update(Processing) event
\* before its update(Completed/Failed) event.
PerTaskEventOrder ==
    \A k \in 1..Len(published) : \A i \in Ids(tasks) :
        /\ IsUpdate(k, i, {"Processing"} \cup Terminal) =>
              \E j \in 1..(k - 1) : IsNewTask(j, i)
        /\ IsUpdate(k, i, Terminal) =>
              \E j \in 1..(k - 1) : IsUpdate(j, i, {"Processing"})

\* What is left of C18: the two "update" events of a task come in order;
\* it is the "new_task" event that can come after them.
UpdateEventOrder ==
    \A k \in 1..Len(published) : \A i \in Ids(tasks) :
        IsUpdate(k, i, Terminal) => \E j \in 1..(k - 1) : IsUpdate(j, i, {"Processing"})

\* C15 -- Dead-connection pruning: when a write of handleMessages to a
\* connection fails, the connection is closed and out of the clients map
\* when that write step ends, and it is never registered, hence never
\* written to by handleMessages, again; a connection whose write went
\* through stays registered.
WriteReturned(c) == dpc = "write" /\ dcur = c /\ dpc' = "range" /\ ~crashed'

WriteFailed(c) == WriteReturned(c) /\ recv'[c] = recv[c]

RangeOverRegistered ==
    /\ todo \subseteq clients
    /\ dcur # 0 => dcur \in clients

PruneStep ==
    \A c \in Conns :
        /\ WriteFailed(c) => c \notin clients' /\ conn'[c] = "closed"
        /\ (WriteReturned(c) /\ ~WriteFailed(c)) => c \in clients'
        /\ (dcur' = c /\ dcur # c) => c \in clients
        /\ (c \in clients' /\ c \notin clients) => spc[c] = "register"
        /\ spc'[c] = "register" => spc[c] \in {"new", "register"}

DeadConnectionPruning == []RangeOverRegistered /\ [][PruneStep]_vars

\* C15 witness: the write of event k to connection c failed while its
\* session was still reading; c is out of the map, and a later event was
\* dispatched to another connection without c
PrunedAndSkipped ==
    \E c, d \in Conns : \E k, k2 \in 1..Dispatched :
        /\ c # d /\ k < k2
        /\ c \in published[k].at /\ ~WrittenTo(c, k)
        /\ c \notin clients /\ conn[c] = "closed" /\ spc[c] = "read"
        /\ c \notin published[k2].at /\ WrittenTo(d, k2)

\* C16 -- Session teardown: once ws.ReadJSON has failed the session only
\* unregisters and ends; when it has ended its connection is out of the
\* clients map and stays out, the session writes nothing more, and
\* handleMessages never writes to the connection again.
TornDown(c) == spc[c] = "done" /\ c \notin clients

TornDownUnvisited == \A c \in Conns : TornDown(c) => dcur # c /\ c \notin todo

TeardownStep ==
    \A c \in Conns :
        /\ spc[c] = "unregister" => spc'[c] \in {"unregister", "done"}
        /\ (spc[c] = "unregister" /\ spc'[c] = "done") => TornDown(c)'
        /\ spc[c] = "done" =>
              /\ spc'[c] = "done"
              /\ hrecv'[c] = hrecv[c] /\ histReq'[c] = histReq[c]
        /\ TornDown(c) => TornDown(c)' /\ recv'[c] = recv[c]

SessionTeardown == []TornDownUnvisited /\ [][TeardownStep]_vars

\* C16 witness: connection c received an event, its session ended on a
\* read failure with every write to c having gone through, and a later
\* event was dispatched to another connection without c
TornDownAndSkipped ==
    \E c, d \in Conns : \E k, k2 \in 1..Dispatched :
        /\ c # d /\ k < k2
        /\ TornDown(c)
        /\ \A n \in 1..Dispatched : c \in published[n].at => WrittenTo(c, n)
        /\ WrittenTo(c, k)
        /\ c \notin published[k2].at /\ WrittenTo(d, k2)

\* C19 -- Queue progress: with fair scheduling, a collaborator that always
\* returns and connection writes that always return, every stored task
\* eventually is Completed or Failed.
Finished(i) == i \in Ids(tasks) /\ tasks[i].status \in Terminal

QueueProgress == \A i \in 1..MaxTasks : (i \in Ids(tasks)) ~> Finished(i)

\* What is left of C19: every stored task is eventually finished unless the
\* process has died of the panic of a concurrent write.
QueueProgressUnlessCrashed ==
    \A i \in 1..MaxTasks : (i \in Ids(tasks)) ~> (Finished(i) \/ crashed)

====
